---- MODULE Spec2Model ----
(***************************************************************************)
(* Model of ghVarSecrets.py: the export (fetch_data) and import            *)
(* (update_data / upload_items) paths of the GitHub secrets and variables  *)
(* manager.  Text is modelled as sequences of one-character strings so     *)
(* that str.lower, str.strip, str.split and the substring test of the      *)
(* source are computed, not assumed.                                       *)
(***************************************************************************)
EXTENDS Integers, Sequences, FiniteSets, TLC

\* ------------------------------------------------------------------ bounds
MaxItems == 2
MaxRows == 2

\* -------------------------------------------------------- text primitives
\* str.lower(), character by character
LowerChar(c) ==
    CASE c = "F" -> "f" [] c = "K" -> "k" [] c = "O" -> "o"
      [] c = "S" -> "s" [] c = "T" -> "t" [] c = "V" -> "v"
      [] c = "R" -> "r" [] c = "N" -> "n" [] OTHER -> c

Lower(s) == [i \in 1..Len(s) |-> LowerChar(s[i])]

\* str.strip(): whitespace removed from both ends
RECURSIVE LStrip(_)
LStrip(s) == IF s # <<>> /\ Head(s) = " " THEN LStrip(Tail(s)) ELSE s

RECURSIVE RStrip(_)
RStrip(s) ==
    IF s # <<>> /\ s[Len(s)] = " " THEN RStrip(SubSeq(s, 1, Len(s) - 1)) ELSE s

Strip(s) == RStrip(LStrip(s))

\* str.split(','): always at least one piece; '' splits to ['']
RECURSIVE SplitFrom(_, _)
SplitFrom(s, cur) ==
    IF s = <<>> THEN <<cur>>
    ELSE IF Head(s) = "," THEN <<cur>> \o SplitFrom(Tail(s), <<>>)
    ELSE SplitFrom(Tail(s), Append(cur, Head(s)))

Split(s) == SplitFrom(s, <<>>)

\* '404' in str(e)
Contains404(s) ==
    \E i \in 1..Len(s) :
        /\ i + 2 <= Len(s)
        /\ s[i] = "4" /\ s[i + 1] = "0" /\ s[i + 2] = "4"

\* dict.get(key, default)
Get(d, key, default) == IF key \in DOMAIN d THEN d[key] ELSE default

\* {key.lower(): value for key, value in item.items()}
LowerKeys(item) ==
    [k \in {Lower(c) : c \in DOMAIN item} |->
        item[CHOOSE c \in DOMAIN item : Lower(c) = k]]

\* a dict written as a set of <<key, value>> pairs
Dict(pairs) ==
    [k \in {p[1] : p \in pairs} |-> (CHOOSE p \in pairs : p[1] = k)[2]]

\* ------------------------------------------------------------ vocabulary
K_type == <<"t","y","p","e">>
K_name == <<"n","a","m","e">>
K_value == <<"v","a","l","u","e">>
K_visibility == <<"v","i","s","i","b","i","l","i","t","y">>
K_selectedrepositories ==
    <<"s","e","l","e","c","t","e","d","r","e","p","o","s","i","t","o","r","i","e","s">>
K_repository == <<"r","e","p","o","s","i","t","o","r","y">>

T_org_secret == <<"o","r","g","_","s","e","c","r","e","t">>
T_org_variable == <<"o","r","g","_","v","a","r","i","a","b","l","e">>
T_repo_secret == <<"r","e","p","o","_","s","e","c","r","e","t">>
T_repo_variable == <<"r","e","p","o","_","v","a","r","i","a","b","l","e">>

V_all == <<"a","l","l">>
V_private == <<"p","r","i","v","a","t","e">>
V_selected == <<"s","e","l","e","c","t","e","d">>

EmptyStr == <<>>

\* the organization and its repositories as the remote store lists them
OrgName == <<"o","r","g">>
RepoA == <<"a">>
RepoSvc == <<"s","v","c">>
OrgRepos == <<RepoA, RepoSvc>>

OrgTarget == [org |-> TRUE, name |-> OrgName]
RepoTarget(n) == [org |-> FALSE, name |-> n]

InSeq(x, s) == \E i \in 1..Len(s) : s[i] = x

\* ----------------------------------------------------------------- state
VARIABLES
    pc,           \* position of the run: function being executed / outcome
    scope,        \* --scope argument: "org", "repo" or "both"
    file,         \* import: the source file handed to read_and_verify_csv
    csv_items,    \* import: the records read_and_verify_csv returned
    target,       \* upload_items: the container being written to
    item_type,    \* upload_items: "secrets" or "variables"
    is_org,       \* upload_items: the is_org argument
    items,        \* upload_items: the batch
    idx,          \* upload_items: index of the next record of the batch
    repoIdx,      \* number of repositories org.get_repos() has yielded
    store,        \* remote store: the items it holds, in creation order
    trace,        \* remote calls and log line of every record processed
    fetch_values, \* export: the --fetch-values flag
    sheets,       \* export: sheet name -> rows written by export_to_excel
    acc,          \* export: the four repo_* accumulator lists
    locked        \* export: the workbook is open elsewhere (PermissionError)

vars == <<pc, scope, file, csv_items, target, item_type, is_org, items, idx,
          repoIdx, store, trace, fetch_values, sheets, acc, locked>>

ItemTypes == {"secrets", "variables"}

\* ------------------------------------------------- remote store (import)
\* text of the exception a failed remote call raises, as str(e) shows it
Msg404 == <<"4","0","4"," ","N","o","t"," ","F","o","u","n","d">>
Msg500 == <<"5","0","0"," ","S","e","r","v","e","r"," ","E","r","r","o","r">>
\* a connection error names the URL requested, which ends in the item name
MsgConn(name) == <<"u","r","l",":"," ","/">> \o name

\* items of one container and kind whose name equals `name` ignoring case
Existing(st, tgt, kind, name) ==
    {i \in 1..Len(st) :
        /\ st[i].target = tgt
        /\ st[i].kind = kind
        /\ Lower(st[i].name) = Lower(name)}

\* target.get_secret(name) / target.get_variable(name): what can come back
ProbeResponses(st, tgt, kind, name) ==
    LET ex == Existing(st, tgt, kind, name)
    IN  {[status |-> 200, found |-> <<st[i]>>, msg |-> <<>>] : i \in ex}
        \cup (IF ex = {}
              THEN {[status |-> 404, found |-> <<>>, msg |-> Msg404]}
              ELSE {})
        \cup {[status |-> 500, found |-> <<>>, msg |-> Msg500],
              [status |-> 0, found |-> <<>>, msg |-> MsgConn(name)]}

\* org.get_repo(name) for each name: TRUE where a repository came back.
\* Only the organization resolves names, and only names of its repositories.
LookupOutcomes(tgt, names) ==
    {oks \in [1..Len(names) -> BOOLEAN] :
        \A i \in 1..Len(names) :
            oks[i] => (tgt.org /\ InSeq(Strip(names[i]), OrgRepos))}

\* ------------------------------------------------------- upload_items
\* lines 123-134: "skip" (continue), "raise" (re-locked to line 164) or
\* "proceed" (fall through to creation)
ProbeGuard(resp, item) ==
    IF resp.status = 200
    THEN IF Lower(resp.found[1].name) = Lower(item[K_name])
         THEN "skip" ELSE "proceed"
    ELSE IF ~Contains404(resp.msg) THEN "raise" ELSE "proceed"

\* lines 137-140
ResolveVisibility(item) ==
    LET visibility == Get(item, K_visibility, V_all)
    IN  IF visibility \notin {V_private, V_selected} THEN V_all ELSE visibility

\* lines 102-113: the handles of the names whose lookup succeeded
RECURSIVE get_repo_ids_from(_, _, _)
get_repo_ids_from(names, oks, i) ==
    IF i > Len(names) THEN <<>>
    ELSE (IF oks[i] THEN <<Strip(names[i])>> ELSE <<>>)
         \o get_repo_ids_from(names, oks, i + 1)

\* a lookup failure ends the resolution instead of dropping one name
RECURSIVE get_repo_ids_abort_from(_, _, _)
get_repo_ids_abort_from(names, oks, i) ==
    IF i > Len(names) \/ ~oks[i] THEN <<>>
    ELSE <<Strip(names[i])>> \o get_repo_ids_abort_from(names, oks, i + 1)

get_repo_ids_abort(names, oks) == get_repo_ids_abort_from(names, oks, 1)

get_repo_ids(names, oks) == get_repo_ids_from(names, oks, 1)

\* lines 142-145: the names handed to get_repo_ids
SelectedRepoNames(item, visibility) ==
    IF visibility = V_selected
    THEN Split(Get(item, K_selectedrepositories, EmptyStr))
    ELSE <<>>

\* lines 147-162: the create call issued
CreateCall(kind, isorg, item, visibility, handles) ==
    [kind |-> kind,
     name |-> item[K_name],
     value |-> item[K_value],
     kwargs |->
        IF isorg
        THEN IF visibility = V_selected
             THEN [visibility |-> visibility, selected_repositories |-> handles]
             ELSE [visibility |-> visibility]
        ELSE <<>>]

StoredItem(tgt, call) ==
    [target |-> tgt, kind |-> call.kind, name |-> call.name,
     value |-> call.value, kwargs |-> call.kwargs]

Entry(tgt, kind, item, resp, existed, lookups, create, result) ==
    [target |-> tgt, kind |-> kind, item |-> item, probe |-> resp.status,
     existed |-> existed, lookups |-> lookups, create |-> create,
     result |-> result]

\* one iteration of the loop of lines 119-165 on record `raw`: every
\* <<store after, trace entry>> the remote store's answers allow
UploadOutcomes(st, tgt, kind, isorg, raw) ==
    LET item == LowerKeys(raw)
        existed == Existing(st, tgt, kind, item[K_name]) # {}
    IN  UNION {
          LET g == ProbeGuard(resp, item)
              visibility == ResolveVisibility(item)
              names == SelectedRepoNames(item, visibility)
          IN  IF g = "skip"
              THEN {<<st, Entry(tgt, kind, item, resp, existed, <<>>, <<>>, "Skipped")>>}
              ELSE IF g = "raise"
              THEN {<<st, Entry(tgt, kind, item, resp, existed, <<>>, <<>>, "Failed")>>}
              ELSE UNION {
                     LET handles == get_repo_ids(names, oks)
                         call == CreateCall(kind, isorg, item, visibility, handles)
                         lookups == [i \in 1..Len(names) |->
                                        [name |-> Strip(names[i]), ok |-> oks[i]]]
                     IN  {<<Append(st, StoredItem(tgt, call)),
                            Entry(tgt, kind, item, resp, existed, lookups,
                                  <<call>>, "Created")>>,
                          <<st,
                            Entry(tgt, kind, item, resp, existed, lookups,
                                  <<call>>, "Failed")>>}
                     : oks \in LookupOutcomes(tgt, names)}
          : resp \in ProbeResponses(st, tgt, kind, item[K_name])}

Uploading == pc \in {"upload_items", "org_secrets", "org_variables",
                     "repo_secrets", "repo_variables"}

UploadItem ==
    /\ Uploading
    /\ idx <= Len(items)
    /\ \E o \in UploadOutcomes(store, target, item_type, is_org, items[idx]) :
          /\ store' = o[1]
          /\ trace' = Append(trace, o[2])
    /\ idx' = idx + 1
    /\ UNCHANGED <<pc, scope, file, csv_items, target, item_type, is_org, items,
                   repoIdx, fetch_values, sheets, acc, locked>>

\* ------------------------------------------- inputs of the upload runs
Foo == <<"F","o","o">>
foo == <<"f","o","o">>
K404 == <<"K","4","0","4">>
X == <<"x">>
Y == <<"y">>
Old == <<"o","l","d">>
RawSelected == <<"S","e","l","e","c","t","e","d">>
RawBogus == <<"b","o","g","u","s">>
Ghost == <<"g">>
SelAGhost == <<"a", ",", " ", "g">>
SelSvcA == <<" ", "s","v","c", " ", ",", "a">>
SelGhost == <<"g">>
RawKeyName == <<"N","a","m","e">>
RawKeyVisibility == <<"V","i","s","i","b","i","l","i","t","y">>

OrgItem(name, value, visibility, selected) ==
    Dict({<<K_name, name>>, <<K_value, value>>, <<K_visibility, visibility>>,
          <<K_selectedrepositories, selected>>})

\* records as callers of upload_items hand them over
UploadRecords ==
    {OrgItem(Foo, X, V_all, EmptyStr),
     OrgItem(foo, Y, RawSelected, SelAGhost),
     OrgItem(K404, X, V_selected, SelAGhost),
     OrgItem(foo, Y, V_selected, EmptyStr),
     OrgItem(Foo, Y, V_selected, SelSvcA),
     OrgItem(K404, Y, V_selected, SelGhost),
     Dict({<<RawKeyName, K404>>, <<K_value, Y>>, <<RawKeyVisibility, RawBogus>>,
           <<K_selectedrepositories, EmptyStr>>}),
     OrgItem(foo, X, V_private, EmptyStr),
     OrgItem(Foo, X, EmptyStr, EmptyStr),
     Dict({<<K_name, foo>>, <<K_value, X>>})}

SeqsUpTo(S, n) == UNION {[1..k -> S] : k \in 0..n}

\* what the remote store holds before the run: names unique ignoring case
InitialStore ==
    <<[target |-> OrgTarget, kind |-> "secrets", name |-> Foo, value |-> Old,
       kwargs |-> [visibility |-> V_private]],
      [target |-> RepoTarget(RepoSvc), kind |-> "variables", name |-> Foo,
       value |-> Old, kwargs |-> <<>>]>>

NoFile == [csv |-> FALSE, columns |-> {}, rows |-> <<>>]
NoSheets == <<>>
NoAcc ==
    [variables |-> <<>>, secrets |-> <<>>, env_variables |-> <<>>,
     env_secrets |-> <<>>]

\* upload_items(target, item_type, items, is_org) called on its own
InitUpload ==
    /\ pc = "upload_items"
    /\ target \in {OrgTarget, RepoTarget(RepoSvc)}
    /\ is_org = target.org
    /\ item_type \in ItemTypes
    /\ items \in SeqsUpTo(UploadRecords, MaxItems)
    /\ idx = 1
    /\ store = InitialStore
    /\ trace = <<>>
    /\ scope = "both"
    /\ file = NoFile
    /\ csv_items = <<>>
    /\ repoIdx = 0
    /\ fetch_values = FALSE
    /\ sheets = NoSheets
    /\ acc = NoAcc
    /\ locked = FALSE

\* the loop of line 119 is exhausted: upload_items returns
UploadReturn ==
    /\ pc = "upload_items"
    /\ idx > Len(items)
    /\ pc' = "done"
    /\ UNCHANGED <<scope, file, csv_items, target, item_type, is_org, items, idx,
                   repoIdx, store, trace, fetch_values, sheets, acc, locked>>

NextUpload == UploadItem \/ UploadReturn

SpecUpload == InitUpload /\ [][NextUpload]_vars

\* ------------------------------------------------- read_and_verify_csv
required_headers_org ==
    {K_type, K_name, K_value, K_visibility, K_selectedrepositories}
required_headers_repo == {K_type, K_name, K_value, K_repository}

\* lines 185-190
valid_types(sc) ==
    (IF sc \in {"org", "both"} THEN {T_org_secret, T_org_variable} ELSE {})
    \cup (IF sc \in {"repo", "both"} THEN {T_repo_secret, T_repo_variable} ELSE {})

\* lines 196-207: TRUE when the headers the scope requires are all present
HeadersOk(headers, sc) ==
    CASE sc = "org" -> required_headers_org \subseteq headers
      [] sc = "repo" -> required_headers_repo \subseteq headers
      [] sc = "both" -> /\ required_headers_org \subseteq headers
                        /\ required_headers_repo \subseteq headers
      [] OTHER -> TRUE

\* lines 183-194: a row without a type cell raises KeyError (caught at line
\* 210), a row of a type the scope does not admit returns []
RowsOk(rows, sc) ==
    \A i \in 1..Len(rows) :
        /\ K_type \in DOMAIN rows[i]
        /\ Lower(rows[i][K_type]) \in valid_types(sc)

\* the offending rows are left out and the others returned
read_and_verify_csv_dropping(f, sc) ==
    LET rows == [i \in 1..Len(f.rows) |-> LowerKeys(f.rows[i])]
        headers == {Lower(c) : c \in f.columns}
    IN  IF ~f.csv \/ ~HeadersOk(headers, sc) THEN <<>>
        ELSE SelectSeq(rows, LAMBDA r : Lower(r[K_type]) \in valid_types(sc))

\* lines 167-212
read_and_verify_csv(f, sc) ==
    LET rows == [i \in 1..Len(f.rows) |-> LowerKeys(f.rows[i])]
        headers == {Lower(c) : c \in f.columns}
    IN  IF ~f.csv THEN <<>>
        ELSE IF ~RowsOk(rows, sc) THEN <<>>
        ELSE IF ~HeadersOk(headers, sc) THEN <<>>
        ELSE rows

\* ----------------------------------------------------------- update_data
\* lines 248-249 and 256-257: the rows of one type, compared as written
OfType(rows, t) == SelectSeq(rows, LAMBDA r : r[K_type] = t)

OfTypeAndRepo(rows, t, repo) ==
    SelectSeq(rows, LAMBDA r : r[K_type] = t /\ r[K_repository] = repo)

\* lines 243-250: read the file, then start on the organization's secrets
UpdateDataRead ==
    /\ pc = "update_data"
    /\ LET read == read_and_verify_csv(file, scope)
           lowered == [i \in 1..Len(read) |-> LowerKeys(read[i])]
       IN  /\ csv_items' = lowered
           /\ IF scope \in {"org", "both"}
              THEN /\ pc' = "org_secrets"
                   /\ target' = OrgTarget
                   /\ item_type' = "secrets"
                   /\ is_org' = TRUE
                   /\ items' = OfType(lowered, T_org_secret)
                   /\ idx' = 1
              ELSE /\ pc' = "repos"
                   /\ UNCHANGED <<target, item_type, is_org, items, idx>>
    /\ UNCHANGED <<scope, file, repoIdx, store, trace, fetch_values, sheets, acc,
                   locked>>

\* line 251
UpdateDataOrgVariables ==
    /\ pc = "org_secrets"
    /\ idx > Len(items)
    /\ pc' = "org_variables"
    /\ item_type' = "variables"
    /\ items' = OfType(csv_items, T_org_variable)
    /\ idx' = 1
    /\ UNCHANGED <<scope, file, csv_items, target, is_org, repoIdx, store, trace,
                   fetch_values, sheets, acc, locked>>

\* line 253
UpdateDataOrgDone ==
    /\ pc = "org_variables"
    /\ idx > Len(items)
    /\ pc' = IF scope \in {"repo", "both"} THEN "repos" ELSE "done"
    /\ UNCHANGED <<scope, file, csv_items, target, item_type, is_org, items, idx,
                   repoIdx, store, trace, fetch_values, sheets, acc, locked>>

\* lines 255-258: org.get_repos() yields the next repository
UpdateDataNextRepo ==
    /\ pc = "repos"
    /\ repoIdx < Len(OrgRepos)
    /\ repoIdx' = repoIdx + 1
    /\ pc' = "repo_secrets"
    /\ target' = RepoTarget(OrgRepos[repoIdx + 1])
    /\ item_type' = "secrets"
    /\ is_org' = FALSE
    /\ items' = OfTypeAndRepo(csv_items, T_repo_secret, OrgRepos[repoIdx + 1])
    /\ idx' = 1
    /\ UNCHANGED <<scope, file, csv_items, store, trace, fetch_values, sheets, acc,
                   locked>>

\* line 255: org.get_repos() raises while a page of repositories is fetched;
\* nothing in update_data or its caller (line 299) catches it
UpdateDataReposRaise ==
    /\ pc = "repos"
    /\ repoIdx < Len(OrgRepos)
    /\ pc' = "crashed"
    /\ UNCHANGED <<scope, file, csv_items, target, item_type, is_org, items, idx,
                   repoIdx, store, trace, fetch_values, sheets, acc, locked>>

\* line 255: org.get_repos() is exhausted
UpdateDataReposDone ==
    /\ pc = "repos"
    /\ repoIdx = Len(OrgRepos)
    /\ pc' = "done"
    /\ UNCHANGED <<scope, file, csv_items, target, item_type, is_org, items, idx,
                   repoIdx, store, trace, fetch_values, sheets, acc, locked>>

\* line 259
UpdateDataRepoVariables ==
    /\ pc = "repo_secrets"
    /\ idx > Len(items)
    /\ pc' = "repo_variables"
    /\ item_type' = "variables"
    /\ items' = OfTypeAndRepo(csv_items, T_repo_variable, target.name)
    /\ idx' = 1
    /\ UNCHANGED <<scope, file, csv_items, target, is_org, repoIdx, store, trace,
                   fetch_values, sheets, acc, locked>>

\* end of the body of the loop of line 255
UpdateDataRepoDone ==
    /\ pc = "repo_variables"
    /\ idx > Len(items)
    /\ pc' = "repos"
    /\ UNCHANGED <<scope, file, csv_items, target, item_type, is_org, items, idx,
                   repoIdx, store, trace, fetch_values, sheets, acc, locked>>

\* ------------------------------------------- inputs of the import runs
RawKeyType == <<"T","y","p","e">>
RawOrgVariable == <<"O","r","g","_","V","a","r","i","a","b","l","e">>
ColsBoth ==
    {K_type, K_name, K_value, K_visibility, K_selectedrepositories, K_repository}
ColsBothRaw ==
    {RawKeyType, K_name, K_value, RawKeyVisibility, K_selectedrepositories,
     K_repository}
ColsOrg == required_headers_org
ColsRepo == required_headers_repo
ColsNoVisibility == ColsBoth \ {K_visibility}
ColsNoType == ColsBoth \ {K_type}

FileColumns ==
    {ColsBoth, ColsBothRaw, ColsOrg, ColsRepo, ColsNoVisibility, ColsNoType}

\* one line of the file, all six cells
Line(type, name, value, visibility, selected, repository) ==
    Dict({<<K_type, type>>, <<K_name, name>>, <<K_value, value>>,
          <<K_visibility, visibility>>, <<K_selectedrepositories, selected>>,
          <<K_repository, repository>>})

Lines ==
    {Line(T_org_secret, Foo, X, V_all, EmptyStr, EmptyStr),
     Line(RawOrgVariable, foo, Y, RawSelected, SelAGhost, EmptyStr),
     Line(T_org_variable, K404, Y, V_selected, SelAGhost, EmptyStr),
     Line(T_repo_secret, K404, X, V_selected, SelGhost, RepoSvc),
     Line(T_repo_variable, Foo, Y, EmptyStr, EmptyStr, Ghost),
     Line(T_repo_variable, foo, X, V_all, EmptyStr, RepoA),
     Line(RawBogus, Foo, X, V_all, EmptyStr, RepoSvc)}

\* the cells of a line under the columns the file has
Row(line, columns) == [c \in columns |-> line[Lower(c)]]

Files ==
    {[csv |-> e, columns |-> cols,
      rows |-> [i \in 1..Len(ls) |-> Row(ls[i], cols)]] :
        e \in BOOLEAN, cols \in FileColumns, ls \in SeqsUpTo(Lines, MaxRows)}

Scopes == {"org", "repo", "both"}

\* update_data(org, csv_file_path, scope), line 299
InitImport ==
    /\ pc = "update_data"
    /\ scope \in Scopes
    /\ file \in Files
    /\ csv_items = <<>>
    /\ target = OrgTarget
    /\ is_org = TRUE
    /\ item_type = "secrets"
    /\ items = <<>>
    /\ idx = 1
    /\ repoIdx = 0
    /\ store = InitialStore
    /\ trace = <<>>
    /\ fetch_values = FALSE
    /\ sheets = NoSheets
    /\ acc = NoAcc
    /\ locked = FALSE

NextImport ==
    \/ UpdateDataRead
    \/ UploadItem
    \/ UpdateDataOrgVariables
    \/ UpdateDataOrgDone
    \/ UpdateDataNextRepo
    \/ UpdateDataReposRaise
    \/ UpdateDataReposDone
    \/ UpdateDataRepoVariables
    \/ UpdateDataRepoDone

SpecImport == InitImport /\ [][NextImport]_vars

\* ------------------------------------------------- remote store (export)
ENV == <<"E","N","V">>
API_KEY == <<"A","P","I","_","K","E","Y">>
Prod == <<"p","r","o","d">>
Dev == <<"d","e","v">>
None == <<"None">>

\* what the organization and its repositories hold when an export runs
ExportStore ==
    <<[target |-> OrgTarget, kind |-> "variables", name |-> ENV, value |-> X,
       kwargs |-> [visibility |-> V_all]],
      [target |-> OrgTarget, kind |-> "variables", name |-> K404, value |-> Y,
       kwargs |-> [visibility |-> V_selected,
                   selected_repositories |-> <<RepoSvc>>]],
      [target |-> OrgTarget, kind |-> "secrets", name |-> Foo, value |-> Old,
       kwargs |-> [visibility |-> V_private]],
      [target |-> RepoTarget(RepoSvc), kind |-> "secrets", name |-> API_KEY,
       value |-> Old, kwargs |-> <<>>],
      [target |-> RepoTarget(RepoSvc), kind |-> "variables", name |-> Foo,
       value |-> X, kwargs |-> <<>>]>>

\* repo.get_environments() and the items of each environment
RepoEnvironments(repo) ==
    IF repo = RepoSvc
    THEN <<[name |-> Prod,
            variables |-> <<[name |-> foo, value |-> X]>>,
            secrets |-> <<>>],
           [name |-> Dev,
            variables |-> <<[name |-> K404, value |-> Y]>>,
            secrets |-> <<[name |-> API_KEY, value |-> Old]>>]>>
    ELSE <<>>

\* container.get_secrets() / get_variables(): the items in listing order
Listing(st, tgt, kind) ==
    SelectSeq(st, LAMBDA i : i.target = tgt /\ i.kind = kind)

\* the (environment, item) pairs the nested loops of lines 80-81 visit
RECURSIVE EnvListing(_, _)
EnvListing(envs, kind) ==
    IF envs = <<>> THEN <<>>
    ELSE LET env == Head(envs)
             its == IF kind = "variables" THEN env.variables ELSE env.secrets
         IN  [i \in 1..Len(its) |-> [env |-> env.name, item |-> its[i]]]
             \o EnvListing(Tail(envs), kind)

\* iterating a remote listing: all of it, or the first n items and then an
\* exception (a page of the listing fails to load)
Enumerations(listing) ==
    {[got |-> listing, raised |-> FALSE]}
    \cup {[got |-> SubSeq(listing, 1, n), raised |-> TRUE] : n \in 0..Len(listing)}

\* ------------------------------------------------------------ export
\* lines 11-14
get_selected_repositories(i) ==
    IF i.kwargs.visibility = V_selected
    THEN i.kwargs.selected_repositories
    ELSE None

\* lines 42-49; valueOk: get_org_variable_value answered (lines 27-33)
OrgItemData(i, kind, fetch, valueOk) ==
    IF fetch /\ kind = "variables"
    THEN [Name |-> i.name, Visibility |-> i.kwargs.visibility,
          SelectedRepositories |-> get_selected_repositories(i),
          Value |-> IF valueOk THEN i.value ELSE None]
    ELSE [Name |-> i.name, Visibility |-> i.kwargs.visibility,
          SelectedRepositories |-> get_selected_repositories(i)]

\* lines 61-67
RepoItemData(repo, i, kind, fetch) ==
    IF fetch /\ kind = "variables"
    THEN [Repository |-> repo, Name |-> i.name, Value |-> i.value]
    ELSE [Repository |-> repo, Name |-> i.name]

\* lines 82-89
EnvItemData(repo, p, kind, fetch) ==
    IF fetch /\ kind = "variables"
    THEN [Repository |-> repo, Environment |-> p.env, Name |-> p.item.name,
          Value |-> p.item.value]
    ELSE [Repository |-> repo, Environment |-> p.env, Name |-> p.item.name]

\* lines 35-52: `items` as returned, whether or not the loop raised
get_items_org(en, kind, fetch, valueOk) ==
    [k \in 1..Len(en.got) |-> OrgItemData(en.got[k], kind, fetch, valueOk[k])]

\* lines 54-70
get_items_repo(repo, en, kind, fetch) ==
    [k \in 1..Len(en.got) |-> RepoItemData(repo, en.got[k], kind, fetch)]

\* lines 72-92
get_env_items_repo(repo, en, kind, fetch) ==
    [k \in 1..Len(en.got) |-> EnvItemData(repo, en.got[k], kind, fetch)]

\* lines 94-100: the sheet is written unless the workbook is locked
export_to_excel(sh, data, sheet_name) ==
    IF locked THEN sh
    ELSE [n \in DOMAIN sh \cup {sheet_name} |->
            IF n = sheet_name THEN data ELSE sh[n]]

Call(container, kind, en, returned) ==
    [container |-> container, kind |-> kind, listed |-> Len(en.got),
     raised |-> en.raised, returned |-> returned]

OrgKinds == <<"variables", "secrets">>
RepoSteps == <<"variables", "secrets", "env_variables", "env_secrets">>

\* line 216
FetchStart ==
    /\ pc = "fetch_data"
    /\ pc' = IF scope \in {"both", "org"} THEN "fetch_org" ELSE "list_repos"
    /\ idx' = 1
    /\ UNCHANGED <<scope, file, csv_items, target, item_type, is_org, items,
                   repoIdx, store, trace, fetch_values, sheets, acc, locked>>

\* lines 217-219, one pass of the loop
FetchOrgItems ==
    /\ pc = "fetch_org"
    /\ idx <= Len(OrgKinds)
    /\ LET kind == OrgKinds[idx]
       IN  \E en \in Enumerations(Listing(store, OrgTarget, kind)) :
           \E valueOk \in [1..Len(en.got) -> BOOLEAN] :
              /\ (~(fetch_values /\ kind = "variables")
                    => \A k \in 1..Len(en.got) : valueOk[k])
              /\ LET got == get_items_org(en, kind, fetch_values, valueOk)
                 IN  /\ trace' = Append(trace, Call(OrgTarget, kind, en, got))
                     /\ sheets' = export_to_excel(sheets, got,
                                                  IF kind = "variables"
                                                  THEN "org_variables"
                                                  ELSE "org_secrets")
    /\ idx' = idx + 1
    /\ UNCHANGED <<pc, scope, file, csv_items, target, item_type, is_org, items,
                   repoIdx, store, fetch_values, acc, locked>>

\* line 222
FetchOrgDone ==
    /\ pc = "fetch_org"
    /\ idx > Len(OrgKinds)
    /\ pc' = IF scope \in {"both", "repo"} THEN "list_repos" ELSE "done"
    /\ UNCHANGED <<scope, file, csv_items, target, item_type, is_org, items, idx,
                   repoIdx, store, trace, fetch_values, sheets, acc, locked>>

\* line 228: list(org.get_repos()) returns the repositories
FetchListRepos ==
    /\ pc = "list_repos"
    /\ pc' = "fetch_repo"
    /\ repoIdx' = 1
    /\ idx' = 1
    /\ UNCHANGED <<scope, file, csv_items, target, item_type, is_org, items,
                   store, trace, fetch_values, sheets, acc, locked>>

\* line 228: list(org.get_repos()) raises; nothing in fetch_data or its
\* caller (line 295) catches it
FetchListReposRaise ==
    /\ pc = "list_repos"
    /\ pc' = "crashed"
    /\ UNCHANGED <<scope, file, csv_items, target, item_type, is_org, items, idx,
                   repoIdx, store, trace, fetch_values, sheets, acc, locked>>

\* lines 233-234
FetchRepoItems ==
    /\ pc = "fetch_repo"
    /\ repoIdx <= Len(OrgRepos)
    /\ idx \in {1, 2}
    /\ LET kind == RepoSteps[idx]
           repo == OrgRepos[repoIdx]
       IN  \E en \in Enumerations(Listing(store, RepoTarget(repo), kind)) :
              LET got == get_items_repo(repo, en, kind, fetch_values)
              IN  /\ trace' = Append(trace, Call(RepoTarget(repo), kind, en, got))
                  /\ acc' = [acc EXCEPT ![kind] = @ \o got]
    /\ idx' = idx + 1
    /\ UNCHANGED <<pc, scope, file, csv_items, target, item_type, is_org, items,
                   repoIdx, store, fetch_values, sheets, locked>>

\* lines 235-236
FetchRepoEnvItems ==
    /\ pc = "fetch_repo"
    /\ repoIdx <= Len(OrgRepos)
    /\ idx \in {3, 4}
    /\ LET kind == IF idx = 3 THEN "variables" ELSE "secrets"
           repo == OrgRepos[repoIdx]
       IN  \E en \in Enumerations(EnvListing(RepoEnvironments(repo), kind)) :
              LET got == get_env_items_repo(repo, en, kind, fetch_values)
              IN  /\ trace' = Append(trace,
                                     Call(RepoTarget(repo), RepoSteps[idx], en, got))
                  /\ acc' = [acc EXCEPT ![RepoSteps[idx]] = @ \o got]
    /\ idx' = idx + 1
    /\ UNCHANGED <<pc, scope, file, csv_items, target, item_type, is_org, items,
                   repoIdx, store, fetch_values, sheets, locked>>

\* line 231: on to the next repository
FetchNextRepo ==
    /\ pc = "fetch_repo"
    /\ repoIdx <= Len(OrgRepos)
    /\ idx > Len(RepoSteps)
    /\ repoIdx' = repoIdx + 1
    /\ idx' = 1
    /\ UNCHANGED <<pc, scope, file, csv_items, target, item_type, is_org, items,
                   store, trace, fetch_values, sheets, acc, locked>>

\* lines 238-239
FetchExportRepoSheets ==
    /\ pc = "fetch_repo"
    /\ repoIdx > Len(OrgRepos)
    /\ sheets' =
         export_to_excel(
           export_to_excel(
             export_to_excel(
               export_to_excel(sheets, acc.variables, "repo_variables"),
               acc.secrets, "repo_secrets"),
             acc.env_variables, "repo_env_variables"),
           acc.env_secrets, "repo_env_secrets")
    /\ pc' = "done"
    /\ UNCHANGED <<scope, file, csv_items, target, item_type, is_org, items, idx,
                   repoIdx, store, trace, fetch_values, acc, locked>>

\* fetch_data(org, file_name, fetch_values, token, org_name, scope), line 295
InitExport ==
    /\ pc = "fetch_data"
    /\ scope \in Scopes
    /\ fetch_values \in BOOLEAN
    /\ locked \in BOOLEAN
    /\ store = ExportStore
    /\ trace = <<>>
    /\ sheets = NoSheets
    /\ acc = NoAcc
    /\ idx = 1
    /\ repoIdx = 0
    /\ file = NoFile
    /\ csv_items = <<>>
    /\ target = OrgTarget
    /\ is_org = TRUE
    /\ item_type = "variables"
    /\ items = <<>>

NextExport ==
    \/ FetchStart
    \/ FetchOrgItems
    \/ FetchOrgDone
    \/ FetchListRepos
    \/ FetchListReposRaise
    \/ FetchRepoItems
    \/ FetchRepoEnvItems
    \/ FetchNextRepo
    \/ FetchExportRepoSheets

SpecExport == InitExport /\ [][NextExport]_vars

\* =============================================================== claims
Entries == {trace[k] : k \in 1..Len(trace)}

\* C1: a container never holds two items of one kind whose names are equal
\* ignoring case, whatever sequence of upserts ran against it.
C1_NoCaseInsensitiveDuplicate ==
    \A i, j \in 1..Len(store) :
        (/\ i # j
         /\ store[i].target = store[j].target
         /\ store[i].kind = store[j].kind)
        => Lower(store[i].name) # Lower(store[j].name)

\* C2: import is non-destructive: the items the store held before the run
\* are still there unchanged, and a create call is issued only for a record
\* whose probe reported the name absent (not found).
C2_OnlyAbsentNamesCreated ==
    /\ SubSeq(store, 1, Len(InitialStore)) = InitialStore
    /\ \A e \in Entries :
          /\ e.create # <<>> => e.probe = 404
          /\ e.result = "Skipped" => (e.create = <<>> /\ e.lookups = <<>>)

\* the visibility the raw text stands for: lower-cased, one of the three
\* values, anything else all
NormalVisibility(raw) ==
    IF Lower(raw) \in {V_all, V_private, V_selected} THEN Lower(raw) ELSE V_all

\* C3: every create call on the organization carries the normalized
\* visibility of the record's raw visibility text ("Selected" -> selected,
\* "bogus" -> all, "" -> all).
C3_VisibilityNormalized ==
    \A e \in Entries :
        (e.target.org /\ e.create # <<>>)
        => e.create[1].kwargs.visibility
             = NormalVisibility(Get(e.item, K_visibility, V_all))

\* names of the lookups that returned a repository, in order
ResolvedNames(lookups) ==
    LET ok == SelectSeq(lookups, LAMBDA l : l.ok)
    IN  [i \in 1..Len(ok) |-> ok[i].name]

LookupNames(lookups) == [i \in 1..Len(lookups) |-> lookups[i].name]

C6_ProbeFailureIsolated ==
    \A e \in Entries :
        /\ e.probe \in {500, 0} => (e.create = <<>> /\ e.result = "Failed")
        /\ e.probe = 404 => e.create # <<>>

\* C9: on a repository target no repository-name lookup is made and the
\* create call carries name and value only.
C9_NoResolutionOnRepository ==
    \A e \in Entries :
        ~e.target.org
        => /\ e.lookups = <<>>
           /\ e.create # <<>> => e.create[1].kwargs = <<>>

\* what the claim calls a schema failure, from the file alone
RequiredColumns(sc) ==
    (IF sc \in {"org", "both"} THEN required_headers_org ELSE {})
    \cup (IF sc \in {"repo", "both"} THEN required_headers_repo ELSE {})

AdmittedTypes(sc) ==
    (IF sc \in {"org", "both"} THEN {T_org_secret, T_org_variable} ELSE {})
    \cup (IF sc \in {"repo", "both"} THEN {T_repo_secret, T_repo_variable} ELSE {})

MissingColumn(f, sc) ==
    \E h \in RequiredColumns(sc) : \A c \in f.columns : Lower(c) # h

BadTypeRow(f, sc) ==
    \E i \in 1..Len(f.rows) :
        \E c \in f.columns :
            Lower(c) = K_type /\ Lower(f.rows[i][c]) \notin AdmittedTypes(sc)

SchemaFailure(f, sc) == ~f.csv \/ MissingColumn(f, sc) \/ BadTypeRow(f, sc)

\* C5: a file that is not .csv, lacks a required column or holds one row of
\* a type the scope does not admit yields zero records, and the run issues
\* no create call on any container.
C5_SchemaFailureAllOrNothing ==
    SchemaFailure(file, scope)
    => /\ csv_items = <<>>
       /\ \A e \in Entries : e.create = <<>>
       /\ store = InitialStore

\* C5 witness: a finished run over a .csv file with every required column,
\* one admitted row and one row of a type outside the scope
C5_Witness ==
    /\ pc = "done"
    /\ file.csv
    /\ ~MissingColumn(file, scope)
    /\ BadTypeRow(file, scope)
    /\ \E i \in 1..Len(file.rows) :
          \E c \in file.columns :
              Lower(c) = K_type /\ Lower(file.rows[i][c]) \in AdmittedTypes(scope)
    /\ csv_items = <<>>
    /\ trace = <<>>

\* C8: once the organization is resolved the run reaches its end: no
\* failure of a later remote call terminates it.
C8_RunNeverTerminatedByRemoteFailure == pc # "crashed"

\* the rows the validation accepts: all of them, when the file passes
AcceptedRows(f, sc) ==
    IF SchemaFailure(f, sc) THEN <<>>
    ELSE [i \in 1..Len(f.rows) |-> LowerKeys(f.rows[i])]

\* C10: at the end of the run every accepted row has been handed to
\* upload_items exactly once, with the kind and target its type and
\* repository column name.
C10_NoAcceptedRowLost ==
    pc = "done"
    => LET rows == AcceptedRows(file, scope)
       IN  /\ Len(trace) = Len(rows)
           /\ \A i \in 1..Len(rows) :
                 \E e \in Entries :
                     /\ e.item = rows[i]
                     /\ e.kind = (IF Lower(rows[i][K_type])
                                       \in {T_org_secret, T_repo_secret}
                                  THEN "secrets" ELSE "variables")
                     /\ e.target = (IF Lower(rows[i][K_type])
                                         \in {T_org_secret, T_org_variable}
                                    THEN OrgTarget
                                    ELSE RepoTarget(rows[i][K_repository]))

\* C7: an enumeration that raised, even after reading some items, returns
\* the empty sequence for its container and kind.
C7_FailedEnumerationReturnsEmpty ==
    \A k \in 1..Len(trace) : trace[k].raised => trace[k].returned = <<>>

====
